---- MODULE Spec2Model ----
(***************************************************************************)
(* Newsletter monitoring daemons (cor-monitoring-service).                 *)
(*                                                                         *)
(* Three implementations are modelled side by side:                        *)
(*   - monitoring_background_service.py  (MonitoringService, "background") *)
(*   - monitoring_service_updated.py     (NewsletterMonitoringService, DB) *)
(*   - monitoring_service_api_only.py    (NewsletterMonitoringService, API)*)
(*                                                                         *)
(* Time.  A datetime is an integer number of ticks since 00:00:00 UTC of   *)
(* day 0; a minute holds TicksPerMin ticks, so that instants that differ   *)
(* only in their seconds are distinct.  now.hour / now.minute are the      *)
(* truncating field accessors HourOf / MinuteOf.                           *)
(***************************************************************************)
EXTENDS Integers, Sequences, FiniteSets, TLC

VARIABLES
    now,                  \* datetime.utcnow(), in ticks
    pc,                   \* the function about to run, or "done"
    schedule_hours,       \* argument of check_process_schedule / get_next_scheduled_time
    tolerance_minutes,    \* argument of check_process_schedule
    observed_runs,        \* run log of the checked process (start times), background service
    worker_runs,          \* table worker_runs: set of started_at (DB variant)
    newsletters,          \* table newsletters: set of [generated_at, title] (DB variant)
    db_fail,              \* index of the schedule entry whose query raises (0: none)
    ret,                  \* [fn, value]: the function that ran and what it returned
    email_alerts_enabled, \* self.email_alerts_enabled
    last_alert_times,     \* self.last_alert_times: alert_key -> time of last delivery
    delivered,            \* the mailbox: set of [key, time] e-mails SMTP accepted
    last_call,            \* the latest send_alert call: [key, time, smtp_ok, sent]
    cycles,               \* monitoring cycles run so far
    monitoring_enabled,   \* self.monitoring_enabled
    smtp_configured,      \* all([smtp_username, smtp_password, alert_email_from, alert_email_to])
    monitoring_status,    \* the status sink: process -> status of the last update it accepted
    run_status,           \* table worker_runs, column status: started_at -> status
    fault,                \* what fails in a health check: "none", "query" or "parse"
    api_response,         \* what make_api_request returns to a health check
    impl,                 \* the implementation that runs: "background", "db" or "api"
    worker_health,        \* the worker verdict of the cycle under way
    publisher_health,     \* the publisher verdict of the cycle under way
    trace                 \* what the cycle under way has done so far, in order

schedVars == <<schedule_hours, tolerance_minutes, observed_runs,
               worker_runs, newsletters, db_fail, ret>>
alertVars == <<email_alerts_enabled, last_alert_times, delivered, last_call>>

loopVars  == <<cycles, monitoring_enabled, smtp_configured, monitoring_status>>

healthVars == <<run_status, fault, api_response>>
cycleVars == <<impl, worker_health, publisher_health, trace>>

vars == <<now, pc, schedVars, alertVars, loopVars, healthVars, cycleVars>>

----------------------------------------------------------------------------
(* Bounds of the model *)

TicksPerMin == 2
MaxRuns == 1
MaxClockMinutes == 65
MaxCycles == 4
MaxHealthRuns == 5
MaxDaemonCycles == 2

(* Calendar arithmetic *)

TicksPerHour == 60 * TicksPerMin
TicksPerDay  == 24 * TicksPerHour

DayOf(t)    == t \div TicksPerDay
HourOf(t)   == (t % TicksPerDay) \div TicksPerHour
MinuteOf(t) == (t % TicksPerHour) \div TicksPerMin

\* datetime.replace(hour=h, minute=m, second=0, microsecond=0)
Replace(t, h, m) == DayOf(t) * TicksPerDay + h * TicksPerHour + m * TicksPerMin

\* timedelta(minutes=n)
Minutes(n) == n * TicksPerMin

\* a duration of n seconds, as time.sleep(n) takes it
Seconds(n) == (n * TicksPerMin) \div 60

\* int(time_diff.total_seconds() / 60): truncation toward zero
IntMinutes(d) == IF d >= 0 THEN d \div TicksPerMin ELSE -((-d) \div TicksPerMin)

\* datetime.isoformat(): the printed fields date, hour, minute and the
\* sub-minute part (seconds), from which the instant can be read back
Isoformat(t) == [date |-> DayOf(t), hour |-> HourOf(t), minute |-> MinuteOf(t),
                 second |-> t % TicksPerMin]

Range(s) == {s[i] : i \in 1..Len(s)}
SetMin(S) == CHOOSE x \in S : \A y \in S : x <= y

----------------------------------------------------------------------------
(* Background service: schedules (setup_schedules) *)

worker_schedule == <<6, 12, 18, 0>>
worker_tolerance == 30
publisher_schedule == <<8>>
publisher_tolerance == 60

\* the hour test with >= for >
LaterHoursToday_Inclusive(hours, current_hour) ==
    {h \in Range(hours) : h >= current_hour}

\* "Find next scheduled hour today": the hours the loop can return
LaterHoursToday(hours, current_hour) == {h \in Range(hours) : h > current_hour}

\* get_next_scheduled_time(schedule_hours), with t its own clock reading;
\* the loop over sorted(schedule_hours) returns at the least later hour
get_next_scheduled_time(t, hours) ==
    LET current_hour == HourOf(t)
        later == LaterHoursToday(hours, current_hour)
        tomorrow == t + TicksPerDay
    IN  IF later # {}
        THEN Replace(t, SetMin(later), 0)
        ELSE Replace(tomorrow, SetMin(Range(hours)), 0)

\* the 00:00 entry taken for the midnight that ended the previous day
ScheduledTime_PreviousMidnight(t, scheduled_hour) ==
    IF scheduled_hour = 0
    THEN Replace(t - TicksPerDay, 0, 0)
    ELSE Replace(t, scheduled_hour, 0)

\* scheduled_time = now.replace(hour=scheduled_hour, minute=0, ...)
ScheduledTime(t, scheduled_hour) == Replace(t, scheduled_hour, 0)

\* "Handle day boundary": the entry's hour is over, or its tolerance is
PastScheduledHour(scheduled_hour, current_hour, current_minute, tolerance) ==
    \/ scheduled_hour < current_hour
    \/ (scheduled_hour = current_hour /\ current_minute > tolerance)

\* time_diff.total_seconds() / 60 > tolerance_minutes
MissedRunToday(time_diff, tolerance) == time_diff > Minutes(tolerance)

\* "Currently in scheduled window"
InScheduledWindow(scheduled_hour, current_hour, current_minute, tolerance) ==
    scheduled_hour = current_hour /\ current_minute <= tolerance

\* the body of the for loop of check_process_schedule from entry i on;
\* t is the clock reading of check_process_schedule, t2 the later reading
\* that get_next_scheduled_time takes
RECURSIVE ScheduleLoop(_, _, _, _, _)
ScheduleLoop(i, t, t2, hours, tolerance) ==
    IF i > Len(hours)
    THEN [status |-> "waiting",
          next_scheduled |-> Isoformat(get_next_scheduled_time(t2, hours)),
          healthy |-> TRUE]
    ELSE LET scheduled_hour == hours[i]
             current_hour   == HourOf(t)
             current_minute == MinuteOf(t)
             scheduled_time == ScheduledTime(t, scheduled_hour)
             time_diff      == t - scheduled_time
         IN  IF PastScheduledHour(scheduled_hour, current_hour,
                                  current_minute, tolerance)
             THEN IF MissedRunToday(time_diff, tolerance)
                  THEN [status |-> "overdue",
                        scheduled_time |-> Isoformat(scheduled_time),
                        minutes_overdue |-> IntMinutes(time_diff),
                        healthy |-> FALSE]
                  ELSE ScheduleLoop(i + 1, t, t2, hours, tolerance)
             ELSE IF InScheduledWindow(scheduled_hour, current_hour,
                                       current_minute, tolerance)
                  THEN [status |-> "on_schedule",
                        scheduled_time |-> Isoformat(scheduled_time),
                        healthy |-> TRUE]
                  ELSE ScheduleLoop(i + 1, t, t2, hours, tolerance)

check_process_schedule(t, t2, hours, tolerance) ==
    ScheduleLoop(1, t, t2, hours, tolerance)

----------------------------------------------------------------------------
(* DB variant: schedules (load_config) and the schedule checks *)

worker_schedule_times == <<"06:00", "12:00", "18:00", "00:00">>
worker_max_delay_minutes == 30
publisher_schedule_times == <<"08:00">>
publisher_max_delay_minutes == 60

\* hour, minute = map(int, scheduled_time.split(':')) on the configured strings
ParseHHMM(s) ==
    CASE s = "00:00" -> <<0, 0>>
      [] s = "06:00" -> <<6, 0>>
      [] s = "08:00" -> <<8, 0>>
      [] s = "12:00" -> <<12, 0>>
      [] s = "18:00" -> <<18, 0>>

\* today_start.replace(hour=hour, minute=minute) for a configured "HH:MM"
ScheduledDatetime(t, s) ==
    LET today_start == Replace(t, 0, 0)
        hm == ParseHHMM(s)
    IN  Replace(today_start, hm[1], hm[2])

MissedRun(s)        == [text |-> "Missed scheduled run at", at |-> s]
MissedGeneration(s) == [text |-> "Missed scheduled generation at", at |-> s]
ScheduleCheckFailed == [text |-> "Schedule check failed", at |-> ""]

\* now > scheduled_datetime + timedelta(minutes=max_delay_minutes)
DeadlinePassed(t, scheduled_datetime, max_delay) ==
    t > scheduled_datetime + Minutes(max_delay)

\* the window query with .gt for .gte: an early start exactly the lookback
\* before the scheduled time is not found
RunsInWindow_OpenStart(runs, window_start, window_end) ==
    {r \in runs : window_start < r /\ r <= window_end}

\* .gte('started_at', window_start).lte('started_at', window_end)
RunsInWindow(runs, window_start, window_end) ==
    {r \in runs : window_start <= r /\ r <= window_end}

\* the for loop of check_worker_schedule from entry i on; the query of
\* entry fail_at raises, which leaves the loop through the except clause
RECURSIVE WorkerScheduleLoop(_, _, _, _, _)
WorkerScheduleLoop(i, t, runs, fail_at, issues) ==
    IF i > Len(worker_schedule_times)
    THEN issues
    ELSE LET scheduled_time     == worker_schedule_times[i]
             scheduled_datetime == ScheduledDatetime(t, scheduled_time)
         IN  IF DeadlinePassed(t, scheduled_datetime, worker_max_delay_minutes)
             THEN IF fail_at = i
                  THEN Append(issues, ScheduleCheckFailed)
                  ELSE LET window_start == scheduled_datetime - Minutes(15)
                           window_end   == scheduled_datetime
                                             + Minutes(worker_max_delay_minutes)
                           runs_in_window ==
                               RunsInWindow(runs, window_start, window_end)
                       IN  WorkerScheduleLoop(i + 1, t, runs, fail_at,
                               IF runs_in_window = {}
                               THEN Append(issues, MissedRun(scheduled_time))
                               ELSE issues)
             ELSE WorkerScheduleLoop(i + 1, t, runs, fail_at, issues)

check_worker_schedule(t, runs, fail_at) ==
    WorkerScheduleLoop(1, t, runs, fail_at, <<>>)

\* .not_.like('title', 'CONFIG_%').not_.like('title', 'PROMPT_%')
Titles == {"Daily Newsletter", "CONFIG_default", "PROMPT_default"}
IsContentTitle(title) == title \notin {"CONFIG_default", "PROMPT_default"}

NewslettersInWindow(rows, window_start, window_end) ==
    {n \in rows : /\ IsContentTitle(n.title)
                  /\ window_start <= n.generated_at
                  /\ n.generated_at <= window_end}

check_publisher_schedule(t, rows, fail_at) ==
    LET scheduled_time     == publisher_schedule_times[1]
        scheduled_datetime == ScheduledDatetime(t, scheduled_time)
    IN  IF DeadlinePassed(t, scheduled_datetime, publisher_max_delay_minutes)
        THEN IF fail_at = 1
             THEN <<ScheduleCheckFailed>>
             ELSE LET window_start == scheduled_datetime - Minutes(30)
                      window_end   == scheduled_datetime
                                        + Minutes(publisher_max_delay_minutes)
                  IN  IF NewslettersInWindow(rows, window_start, window_end) = {}
                      THEN <<MissedGeneration(scheduled_time)>>
                      ELSE <<>>
        ELSE <<>>

----------------------------------------------------------------------------
(* DB and API-only variants: the health checks                              *)

\* timedelta(hours=n)
Hours(n) == n * TicksPerHour

SetMax(S) == CHOOSE x \in S : \A y \in S : y <= x

\* None in a field that otherwise holds a timestamp
NoTime == -1

\* a float the checks compute or receive, kept exact as the quotient num/den
Rate(num, den) == [num |-> num, den |-> den]

\* the tenths of f"{x:.1f}" for x = num/den >= 0: the nearest tenth (a value
\* halfway between two tenths goes to the even one)
Tenths(x) ==
    LET q == (10 * x.num) \div x.den
        r == (10 * x.num) % x.den
    IN  IF 2 * r > x.den \/ (2 * r = x.den /\ q % 2 = 1) THEN q + 1 ELSE q

\* f"{x:.1f}"
Format1(x) == ToString(Tenths(x) \div 10) \o "." \o ToString(Tenths(x) % 10)

LowSuccessRateIssue(success_rate) ==
    [text |-> "Low success rate:", at |-> Format1(success_rate) \o "%"]
NoGenerationIssue(hours_since_last) ==
    [text |-> "No generation in", at |-> Format1(hours_since_last) \o " hours"]
NoRecentRunsFound    == [text |-> "No recent worker runs found", at |-> ""]
NoRecentRuns         == [text |-> "No recent worker runs", at |-> ""]
NoRecentGeneration   == [text |-> "No recent newsletter generation", at |-> ""]
HealthCheckFailed    == [text |-> "Health check failed", at |-> ""]
InvalidTimestamp     == [text |-> "Invalid generation timestamp", at |-> ""]
FailedToGet(service) ==
    [text |-> "Failed to get " \o service \o " status from API", at |-> ""]

\* the verdict of the except clause of a health check
HealthCheckError(service) ==
    [service |-> service, status |-> "error", issues |-> <<HealthCheckFailed>>]

\* the success-rate test with <= for <
SuccessRateLow_Inclusive(success_rate) ==
    success_rate.num <= 80 * success_rate.den

\* health_status['success_rate'] < 80
SuccessRateLow(success_rate) == success_rate.num < 80 * success_rate.den

\* hours_since_last > 25, hours_since_last being total_seconds() / 3600
GenerationStale(since_last) == since_last > Hours(25)

\* the schedule issues overwriting whatever status was there
CombineWithSchedule_Overwrite(status, schedule_issues) ==
    IF schedule_issues # <<>> THEN "degraded" ELSE status

\* "Check schedule adherence": the status after the schedule check
CombineWithSchedule(status, schedule_issues) ==
    IF schedule_issues # <<>> /\ status = "healthy" THEN "degraded" ELSE status

\* "Analyze health" of check_worker_health, DB variant: status and issues
\* before the schedule check, from the rows of the last two hours
WorkerAggregate(n, success_rate) ==
    IF n > 0
    THEN IF SuccessRateLow(success_rate)
         THEN [status |-> "degraded",
               issues |-> <<LowSuccessRateIssue(success_rate)>>]
         ELSE [status |-> "healthy", issues |-> <<>>]
    ELSE [status |-> "inactive", issues |-> <<NoRecentRunsFound>>]

\* check_worker_health(), DB variant, at clock reading t; runs and status_of
\* are the table worker_runs, flt = "query" makes one of the two queries of
\* the function raise, fail_at is the schedule query that raises
check_worker_health(t, runs, status_of, flt, fail_at) ==
    IF flt = "query"
    THEN HealthCheckError("worker")
    ELSE LET cutoff_time == t - Hours(2)
             recent_runs == {r \in runs : r >= cutoff_time}
             n == Cardinality(recent_runs)
             successful_runs ==
                 Cardinality({r \in recent_runs : status_of[r] = "completed"})
             success_rate == IF n > 0 THEN Rate(successful_runs * 100, n)
                                      ELSE Rate(0, 1)
             aggregate == WorkerAggregate(n, success_rate)
             schedule_issues == check_worker_schedule(t, runs, fail_at)
         IN  [service |-> "worker",
              status |-> CombineWithSchedule(aggregate.status, schedule_issues),
              recent_runs |-> n,
              success_rate |-> success_rate,
              last_run |-> IF n > 0 THEN SetMax(recent_runs) ELSE NoTime,
              issues |-> aggregate.issues \o schedule_issues]

\* "Analyze health" of check_publisher_health, DB variant: status and issues
\* before the schedule check; every row the query returns has a timestamp
PublisherAggregate(t, recent, last_generation) ==
    IF recent # {}
    THEN IF GenerationStale(t - last_generation)
         THEN [status |-> "degraded",
               issues |-> <<NoGenerationIssue(Rate(t - last_generation,
                                                   TicksPerHour))>>]
         ELSE [status |-> "healthy", issues |-> <<>>]
    ELSE [status |-> "inactive", issues |-> <<NoRecentGeneration>>]

\* check_publisher_health(), DB variant; flt = "query" makes the query
\* raise, flt = "parse" makes fromisoformat reject the newest timestamp
check_publisher_health(t, rows, flt, fail_at) ==
    LET cutoff_time == t - Hours(24)
        recent == {n \in rows : IsContentTitle(n.title)
                                  /\ n.generated_at >= cutoff_time}
        last_generation == IF recent # {}
                           THEN SetMax({n.generated_at : n \in recent})
                           ELSE NoTime
        aggregate == PublisherAggregate(t, recent, last_generation)
        schedule_issues == check_publisher_schedule(t, rows, fail_at)
    IN  IF flt = "query" \/ (flt = "parse" /\ recent # {})
        THEN HealthCheckError("publisher")
        ELSE [service |-> "publisher",
              status |-> CombineWithSchedule(aggregate.status, schedule_issues),
              recent_newsletters |-> Cardinality(recent),
              last_generation |-> last_generation,
              issues |-> aggregate.issues \o schedule_issues]

\* make_api_request returned None (the request failed)
ApiNone == [ok |-> FALSE]

\* make_api_request returned the decoded JSON object json
ApiJson(json) == [ok |-> TRUE, json |-> json]

\* dict.get(key, default)
Get(json, key, default) == IF key \in DOMAIN json THEN json[key] ELSE default

\* "if not worker_status": None, and the empty object as well
Falsy(response) == ~response.ok \/ DOMAIN response.json = {}

ApiError(service) ==
    [service |-> service, status |-> "error",
     issues |-> <<FailedToGet(service)>>, api_accessible |-> FALSE]

\* the zero-count test leaving a degraded status as it is
InactiveWhenNone_KeepDegraded(status, count) ==
    IF count = 0 /\ status # "degraded" THEN "inactive" ELSE status

\* "if health_status['recent_runs'] == 0" / "['recent_newsletters'] == 0":
\* the last assignment to the status
InactiveWhenNone(status, count) == IF count = 0 THEN "inactive" ELSE status

\* check_worker_health(), API-only variant; flt = "query" is an exception
\* other than a RequestException inside the try
api_check_worker_health(response, flt) ==
    IF flt = "query"
    THEN HealthCheckError("worker") @@ [api_accessible |-> FALSE]
    ELSE IF Falsy(response)
    THEN ApiError("worker")
    ELSE LET worker_status == response.json
             status0 == Get(worker_status, "status", "unknown")
             recent_runs == Get(worker_status, "recent_runs", 0)
             success_rate == Get(worker_status, "success_rate", Rate(0, 1))
             issues0 == Get(worker_status, "issues", <<>>)
             low == SuccessRateLow(success_rate)
             status1 == IF low THEN "degraded" ELSE status0
             issues1 == IF low
                        THEN Append(issues0, LowSuccessRateIssue(success_rate))
                        ELSE issues0
         IN  [service |-> "worker",
              status |-> InactiveWhenNone(status1, recent_runs),
              recent_runs |-> recent_runs,
              success_rate |-> success_rate,
              last_run |-> Get(worker_status, "last_run", NoTime),
              issues |-> IF recent_runs = 0
                         THEN Append(issues1, NoRecentRuns) ELSE issues1,
              api_accessible |-> TRUE]

\* check_publisher_health(), API-only variant, at clock reading t;
\* flt = "parse" makes fromisoformat reject last_generation
api_check_publisher_health(t, response, flt) ==
    IF flt = "query"
    THEN HealthCheckError("publisher") @@ [api_accessible |-> FALSE]
    ELSE IF Falsy(response)
    THEN ApiError("publisher")
    ELSE LET publisher_status == response.json
             status0 == Get(publisher_status, "status", "unknown")
             recent_newsletters == Get(publisher_status, "recent_newsletters", 0)
             last_generation == Get(publisher_status, "last_generation", NoTime)
             issues0 == Get(publisher_status, "issues", <<>>)
             stale == /\ last_generation # NoTime
                      /\ flt # "parse"
                      /\ GenerationStale(t - last_generation)
             status1 == IF stale THEN "degraded" ELSE status0
             issues1 ==
                 IF last_generation = NoTime THEN issues0
                 ELSE IF flt = "parse" THEN Append(issues0, InvalidTimestamp)
                 ELSE IF stale
                 THEN Append(issues0, NoGenerationIssue(
                                 Rate(t - last_generation, TicksPerHour)))
                 ELSE issues0
         IN  [service |-> "publisher",
              status |-> InactiveWhenNone(status1, recent_newsletters),
              recent_newsletters |-> recent_newsletters,
              last_generation |-> last_generation,
              issues |-> IF recent_newsletters = 0
                         THEN Append(issues1, NoRecentGeneration) ELSE issues1,
              api_accessible |-> TRUE]

----------------------------------------------------------------------------
(* Inputs of the schedule functions *)

\* the instants of one UTC day that has a day before it
DayTicks == TicksPerDay .. (2 * TicksPerDay - 1)
TodayAt0(h, m) == Replace(TicksPerDay, h, m)

SmallSubsets(S) == {X \in SUBSET S : Cardinality(X) <= MaxRuns}

BgConfigs == {<<worker_schedule, worker_tolerance>>,
              <<publisher_schedule, publisher_tolerance>>}

\* further schedules for get_next_scheduled_time: every duplicate-free
\* list over three hours, in any order
ExtraHours == {0, 7, 23}
ExtraSchedules ==
    {s \in UNION {[1..n -> ExtraHours] : n \in 1..3} :
        \A i, j \in DOMAIN s : i # j => s[i] # s[j]}
AnySchedules == {worker_schedule, publisher_schedule} \cup ExtraSchedules

\* a run of the process five minutes after a scheduled time of today
BgRunCandidates(t, hours) == {Replace(t, h, 5) : h \in Range(hours)}

\* clock readings for the DB checks: every ten minutes, and the ticks
\* around each deadline
DbDeadlines(t) ==
    {ScheduledDatetime(t, s) + Minutes(worker_max_delay_minutes) :
        s \in Range(worker_schedule_times)}
    \cup {ScheduledDatetime(t, s) + Minutes(publisher_max_delay_minutes) :
        s \in Range(publisher_schedule_times)}
DbNows == {t \in DayTicks :
              \/ t % Minutes(10) = 0
              \/ \E d \in DbDeadlines(t) : t - d \in {-1, 1}}

Edges(lo, hi) == {lo - 1, lo, hi, hi + 1}

WorkerRunCandidates(t) ==
    UNION {LET T == ScheduledDatetime(t, s)
           IN  Edges(T - Minutes(15), T + Minutes(worker_max_delay_minutes))
                 \cup {T}
           : s \in Range(worker_schedule_times)}

NewsletterCandidates(t) ==
    LET T == ScheduledDatetime(t, publisher_schedule_times[1])
    IN  {[generated_at |-> g, title |-> ti] :
            g \in Edges(T - Minutes(30), T + Minutes(publisher_max_delay_minutes))
                    \cup {T},
            ti \in Titles}

NoRet == [fn |-> "none"]

NoCall == [key |-> "", time |-> 0, smtp_ok |-> FALSE, sent |-> FALSE]

AlertsUnused ==
    /\ email_alerts_enabled = FALSE
    /\ last_alert_times = <<>>
    /\ delivered = {}
    /\ last_call = NoCall

NoStatus == [worker |-> "none", publisher |-> "none"]

LoopUnused ==
    /\ cycles = 0
    /\ monitoring_enabled = TRUE
    /\ smtp_configured = TRUE
    /\ monitoring_status = NoStatus

NoVerdict == [status |-> "none"]

HealthUnused ==
    /\ run_status = <<>>
    /\ fault = "none"
    /\ api_response = ApiNone

CycleUnused ==
    /\ impl = "none"
    /\ worker_health = NoVerdict
    /\ publisher_health = NoVerdict
    /\ trace = <<>>

InitCommon ==
    /\ now \in DayTicks
    /\ ret = NoRet
    /\ AlertsUnused
    /\ LoopUnused
    /\ HealthUnused
    /\ CycleUnused

InitCheckProcessSchedule ==
    /\ InitCommon
    /\ pc = "check_process_schedule"
    /\ \E c \in BgConfigs : schedule_hours = c[1] /\ tolerance_minutes = c[2]
    /\ observed_runs \in
         SmallSubsets({r \in BgRunCandidates(now, schedule_hours) : r <= now})
    /\ worker_runs = {} /\ newsletters = {} /\ db_fail = 0

InitGetNextScheduledTime ==
    /\ InitCommon
    /\ pc = "get_next_scheduled_time"
    /\ schedule_hours \in AnySchedules
    /\ tolerance_minutes = 0
    /\ observed_runs = {} /\ worker_runs = {} /\ newsletters = {} /\ db_fail = 0

InitCheckWorkerSchedule ==
    /\ InitCommon
    /\ now \in DbNows
    /\ pc = "check_worker_schedule"
    /\ schedule_hours = <<>> /\ tolerance_minutes = 0 /\ observed_runs = {}
    /\ worker_runs \in SmallSubsets({r \in WorkerRunCandidates(now) : r <= now})
    /\ newsletters = {}
    /\ db_fail \in 0..Len(worker_schedule_times)

InitCheckPublisherSchedule ==
    /\ InitCommon
    /\ now \in DbNows
    /\ pc = "check_publisher_schedule"
    /\ schedule_hours = <<>> /\ tolerance_minutes = 0 /\ observed_runs = {}
    /\ worker_runs = {}
    /\ newsletters \in
         SmallSubsets({n \in NewsletterCandidates(now) : n.generated_at <= now})
    /\ db_fail \in 0..Len(publisher_schedule_times)

InitSchedule ==
    \/ InitCheckProcessSchedule
    \/ InitGetNextScheduledTime
    \/ InitCheckWorkerSchedule
    \/ InitCheckPublisherSchedule

(* One call of each schedule function *)

CheckProcessSchedule ==
    /\ pc = "check_process_schedule"
    /\ \E t2 \in {now, now + 1} :
         ret' = [fn |-> "check_process_schedule",
                 value |-> check_process_schedule(now, t2, schedule_hours,
                                                  tolerance_minutes)]
    /\ pc' = "done"
    /\ UNCHANGED <<now, schedule_hours, tolerance_minutes, observed_runs,
                   worker_runs, newsletters, db_fail, alertVars, loopVars,
                   healthVars, cycleVars>>

GetNextScheduledTime ==
    /\ pc = "get_next_scheduled_time"
    /\ ret' = [fn |-> "get_next_scheduled_time",
               value |-> get_next_scheduled_time(now, schedule_hours)]
    /\ pc' = "done"
    /\ UNCHANGED <<now, schedule_hours, tolerance_minutes, observed_runs,
                   worker_runs, newsletters, db_fail, alertVars, loopVars,
                   healthVars, cycleVars>>

CheckWorkerSchedule ==
    /\ pc = "check_worker_schedule"
    /\ ret' = [fn |-> "check_worker_schedule",
               value |-> check_worker_schedule(now, worker_runs, db_fail)]
    /\ pc' = "done"
    /\ UNCHANGED <<now, schedule_hours, tolerance_minutes, observed_runs,
                   worker_runs, newsletters, db_fail, alertVars, loopVars,
                   healthVars, cycleVars>>

CheckPublisherSchedule ==
    /\ pc = "check_publisher_schedule"
    /\ ret' = [fn |-> "check_publisher_schedule",
               value |-> check_publisher_schedule(now, newsletters, db_fail)]
    /\ pc' = "done"
    /\ UNCHANGED <<now, schedule_hours, tolerance_minutes, observed_runs,
                   worker_runs, newsletters, db_fail, alertVars, loopVars,
                   healthVars, cycleVars>>

NextSchedule ==
    \/ CheckProcessSchedule
    \/ GetNextScheduledTime
    \/ CheckWorkerSchedule
    \/ CheckPublisherSchedule

SpecSchedule == InitSchedule /\ [][NextSchedule]_vars

----------------------------------------------------------------------------
(* Inputs of the health checks, and one call of each *)

\* clock readings of a day that has two days before it
HealthNows ==
    {2 * TicksPerDay + Hours(hm[1]) + Minutes(hm[2]) :
        hm \in {<<0, 10>>, <<6, 45>>, <<10, 0>>}}

\* started_at of worker runs: every five minutes of the last 25, the two
\* ticks around the two-hour cutoff, and the scheduled times of the day
HealthRunCandidates(t) ==
    {t - Minutes(5 * k) : k \in 1..MaxHealthRuns}
    \cup {t - Hours(2), t - Hours(2) - 1}
    \cup {T \in {ScheduledDatetime(t, x) : x \in Range(worker_schedule_times)} :
            T <= t}

\* generated_at of newsletters: ten hours old, the ticks around the 24-hour
\* cutoff and the 25-hour threshold, 26 hours old, and today's 08:00
GenerationAges == {Hours(10), Hours(24), Hours(24) + 1, Hours(25) + 1, Hours(26)}
HealthNewsletterCandidates(t) ==
    {[generated_at |-> g, title |-> ti] :
        g \in {t - a : a \in GenerationAges}
                \cup {T \in {ScheduledDatetime(t, publisher_schedule_times[1])} :
                        T <= t},
        ti \in Titles}

Restrict(f, K) == [k \in K |-> f[k]]

\* an issue string the API itself reports
ApiIssue == [text |-> "reported by the API", at |-> ""]

\* JSON objects of /api/v1/monitoring/worker/status, any key absent
ApiWorkerJsons ==
    {Restrict(full, K) :
        full \in [status : {"healthy", "degraded", "inactive"},
                  recent_runs : {0, MaxHealthRuns},
                  success_rate : {Rate(799, 10), Rate(80, 1), Rate(95, 1)},
                  issues : {<<>>, <<ApiIssue>>}],
        K \in SUBSET {"status", "recent_runs", "success_rate", "issues"}}

\* JSON objects of /api/v1/monitoring/publisher/status, any key absent
ApiPublisherJsons(t) ==
    {Restrict(full, K) :
        full \in [status : {"healthy", "degraded"},
                  recent_newsletters : {0, 1},
                  last_generation : {t - a : a \in GenerationAges},
                  issues : {<<>>, <<ApiIssue>>}],
        K \in SUBSET {"status", "recent_newsletters", "last_generation",
                      "issues"}}

InitHealthCommon ==
    /\ now \in HealthNows
    /\ ret = NoRet
    /\ schedule_hours = <<>> /\ tolerance_minutes = 0 /\ observed_runs = {}
    /\ AlertsUnused
    /\ LoopUnused
    /\ CycleUnused

InitCheckWorkerHealth ==
    /\ InitHealthCommon
    /\ pc = "check_worker_health"
    /\ fault \in {"none", "query"}
    /\ worker_runs \in
         {X \in SUBSET HealthRunCandidates(now) :
             Cardinality(X) <= (IF fault = "none" THEN MaxHealthRuns ELSE 0)}
    /\ run_status \in [worker_runs -> {"completed", "failed"}]
    /\ \A r \in worker_runs : r < now - Hours(2) => run_status[r] = "completed"
    /\ newsletters = {}
    /\ db_fail \in {0, 1}
    /\ api_response = ApiNone

InitCheckPublisherHealth ==
    /\ InitHealthCommon
    /\ pc = "check_publisher_health"
    /\ fault \in {"none", "query", "parse"}
    /\ worker_runs = {} /\ run_status = <<>>
    /\ newsletters \in
         {X \in SUBSET HealthNewsletterCandidates(now) :
             Cardinality(X) <= MaxRuns + 1}
    /\ db_fail \in {0, 1}
    /\ api_response = ApiNone

InitApiCheckWorkerHealth ==
    /\ InitHealthCommon
    /\ pc = "api_check_worker_health"
    /\ fault \in {"none", "query"}
    /\ worker_runs = {} /\ run_status = <<>> /\ newsletters = {} /\ db_fail = 0
    /\ api_response \in {ApiNone} \cup {ApiJson(j) : j \in ApiWorkerJsons}

InitApiCheckPublisherHealth ==
    /\ InitHealthCommon
    /\ pc = "api_check_publisher_health"
    /\ fault \in {"none", "query", "parse"}
    /\ worker_runs = {} /\ run_status = <<>> /\ newsletters = {} /\ db_fail = 0
    /\ api_response \in {ApiNone} \cup {ApiJson(j) : j \in ApiPublisherJsons(now)}

InitHealth ==
    \/ InitCheckWorkerHealth
    \/ InitCheckPublisherHealth
    \/ InitApiCheckWorkerHealth
    \/ InitApiCheckPublisherHealth

CheckWorkerHealth ==
    /\ pc = "check_worker_health"
    /\ ret' = [fn |-> "check_worker_health",
               value |-> check_worker_health(now, worker_runs, run_status,
                                             fault, db_fail)]
    /\ pc' = "done"
    /\ UNCHANGED <<now, schedule_hours, tolerance_minutes, observed_runs,
                   worker_runs, newsletters, db_fail, alertVars, loopVars,
                   healthVars, cycleVars>>

CheckPublisherHealth ==
    /\ pc = "check_publisher_health"
    /\ ret' = [fn |-> "check_publisher_health",
               value |-> check_publisher_health(now, newsletters, fault, db_fail)]
    /\ pc' = "done"
    /\ UNCHANGED <<now, schedule_hours, tolerance_minutes, observed_runs,
                   worker_runs, newsletters, db_fail, alertVars, loopVars,
                   healthVars, cycleVars>>

ApiCheckWorkerHealth ==
    /\ pc = "api_check_worker_health"
    /\ ret' = [fn |-> "api_check_worker_health",
               value |-> api_check_worker_health(api_response, fault)]
    /\ pc' = "done"
    /\ UNCHANGED <<now, schedule_hours, tolerance_minutes, observed_runs,
                   worker_runs, newsletters, db_fail, alertVars, loopVars,
                   healthVars, cycleVars>>

ApiCheckPublisherHealth ==
    /\ pc = "api_check_publisher_health"
    /\ ret' = [fn |-> "api_check_publisher_health",
               value |-> api_check_publisher_health(now, api_response, fault)]
    /\ pc' = "done"
    /\ UNCHANGED <<now, schedule_hours, tolerance_minutes, observed_runs,
                   worker_runs, newsletters, db_fail, alertVars, loopVars,
                   healthVars, cycleVars>>

NextHealth ==
    \/ CheckWorkerHealth
    \/ CheckPublisherHealth
    \/ ApiCheckWorkerHealth
    \/ ApiCheckPublisherHealth

SpecHealth == InitHealth /\ [][NextHealth]_vars

----------------------------------------------------------------------------
(* DB and API-only variants: send_alert (the two copies are the same code) *)

alert_cooldown_minutes == 30
health_check_interval == 300

\* alert_key = f"{service_name}_{subject}"
AlertKey(service_name, subject) == service_name \o "_" \o subject

\* the cooldown test with the seconds not divided into minutes
CooldownActive_Seconds(time_since_last) ==
    time_since_last * 60 < Minutes(alert_cooldown_minutes)

\* the cooldown test with <= for <
CooldownActive_Inclusive(time_since_last) ==
    time_since_last <= Minutes(alert_cooldown_minutes)

\* time_since_last < self.alert_cooldown_minutes, time_since_last being
\* (now - last).total_seconds() / 60
CooldownActive(time_since_last) ==
    time_since_last < Minutes(alert_cooldown_minutes)

\* the cooldown test looking at the entries of all keys
Suppressed_AnyKey(t, lat, alert_key) ==
    \E k \in DOMAIN lat : CooldownActive(t - lat[k])

\* "Check cooldown": the early return of send_alert
Suppressed(t, lat, alert_key) ==
    alert_key \in DOMAIN lat /\ CooldownActive(t - lat[alert_key])

\* the assignment replacing the map by the one entry
RecordSent_Forgetful(lat, alert_key, t) == [k \in {alert_key} |-> t]

\* self.last_alert_times[alert_key] = now
RecordSent(lat, alert_key, t) ==
    [k \in DOMAIN lat \cup {alert_key} |-> IF k = alert_key THEN t ELSE lat[k]]

\* send_alert(subject, message, service_name) at clock reading t; smtp_ok
\* tells whether the SMTP session runs through or raises.  Returns the new
\* last_alert_times and whether the e-mail went out.
send_alert(t, enabled, lat, service_name, subject, smtp_ok) ==
    LET alert_key == AlertKey(service_name, subject)
    IN  IF ~enabled
        THEN [last_alert_times |-> lat, sent |-> FALSE]
        ELSE IF Suppressed(t, lat, alert_key)
        THEN [last_alert_times |-> lat, sent |-> FALSE]
        ELSE IF smtp_ok
        THEN [last_alert_times |-> RecordSent(lat, alert_key, t), sent |-> TRUE]
        ELSE [last_alert_times |-> lat, sent |-> FALSE]

\* str.title() on the status values
Title(status) ==
    CASE status = "degraded" -> "Degraded"
      [] status = "inactive" -> "Inactive"
      [] status = "error"    -> "Error"

\* the (service_name, subject) pairs run_monitoring_cycle calls send_alert with
AlertCalls ==
    {<<"worker", "Worker Service " \o Title(st)>> : st \in {"degraded", "inactive"}}

\* time that passes between two calls: the sleep of the run loop, one tick
\* less than the cooldown, the cooldown, and 31 minutes
Elapsed == {Seconds(health_check_interval),
            Minutes(alert_cooldown_minutes) - 1,
            Minutes(alert_cooldown_minutes),
            Minutes(alert_cooldown_minutes + 1)}

InitAlert ==
    /\ now = TicksPerDay
    /\ pc = "send_alert"
    /\ schedule_hours = <<>> /\ tolerance_minutes = 0 /\ observed_runs = {}
    /\ worker_runs = {} /\ newsletters = {} /\ db_fail = 0 /\ ret = NoRet
    /\ email_alerts_enabled \in BOOLEAN
    /\ last_alert_times = <<>>
    /\ delivered = {}
    /\ last_call = NoCall
    /\ LoopUnused
    /\ HealthUnused
    /\ CycleUnused

SendAlert ==
    /\ pc = "send_alert"
    /\ \E c \in AlertCalls, smtp_ok \in BOOLEAN :
         LET r == send_alert(now, email_alerts_enabled, last_alert_times,
                             c[1], c[2], smtp_ok)
             alert_key == AlertKey(c[1], c[2])
         IN  /\ last_alert_times' = r.last_alert_times
             /\ delivered' = IF r.sent
                             THEN delivered \cup {[key |-> alert_key, time |-> now]}
                             ELSE delivered
             /\ last_call' = [key |-> alert_key, time |-> now,
                              smtp_ok |-> smtp_ok, sent |-> r.sent]
    /\ UNCHANGED <<now, pc, schedVars, email_alerts_enabled, loopVars,
                   healthVars, cycleVars>>

TimePasses ==
    /\ pc = "send_alert"
    /\ \E d \in Elapsed :
         /\ now + d <= TicksPerDay + Minutes(MaxClockMinutes)
         /\ now' = now + d
    /\ UNCHANGED <<pc, schedVars, alertVars, loopVars, healthVars, cycleVars>>

NextAlert == SendAlert \/ TimePasses

SpecAlert == InitAlert /\ [][NextAlert]_vars

----------------------------------------------------------------------------
(* Background service: send_email_alert, update_monitoring_status,          *)
(* monitor_processes and the run loop                                       *)

\* send_email_alert(subject, message): whether the e-mail goes out
send_email_alert(enabled, configured, smtp_ok) ==
    IF ~enabled THEN FALSE
    ELSE IF ~configured THEN FALSE
    ELSE smtp_ok

\* update_monitoring_status(process_type, status_data): the sink after the
\* POST, which it accepts (post_ok) or which fails and is only logged
update_monitoring_status(sink, process_type, status_data, post_ok) ==
    IF post_ok
    THEN [sink EXCEPT ![process_type] = status_data.status]
    ELSE sink

\* the e-mails one monitor_processes pass hands to SMTP
OverdueMails(t, worker_status, publisher_status, enabled, configured, smtp_ok) ==
    (IF worker_status.status = "overdue"
        /\ send_email_alert(enabled, configured, smtp_ok[1])
     THEN {[key |-> "Worker Process Overdue", time |-> t]} ELSE {})
    \cup
    (IF publisher_status.status = "overdue"
        /\ send_email_alert(enabled, configured, smtp_ok[2])
     THEN {[key |-> "Publisher Process Overdue", time |-> t]} ELSE {})

\* clock readings at which the service is started
BgStarts == {TodayAt0(h, m) : h \in {0, 3, 6, 8, 9, 12}, m \in {0, 25, 45}}

InitBackground ==
    /\ now \in BgStarts
    /\ pc = "run"
    /\ schedule_hours = <<>> /\ tolerance_minutes = 0 /\ observed_runs = {}
    /\ worker_runs = {} /\ newsletters = {} /\ db_fail = 0 /\ ret = NoRet
    /\ email_alerts_enabled \in BOOLEAN
    /\ last_alert_times = <<>>
    /\ delivered = {}
    /\ last_call = NoCall
    /\ cycles = 0
    /\ monitoring_enabled \in BOOLEAN
    /\ smtp_configured \in BOOLEAN
    /\ monitoring_status = NoStatus
    /\ HealthUnused
    /\ CycleUnused

\* run(), up to the loop: the startup notification
RunStart ==
    /\ pc = "run"
    /\ \E smtp_ok \in BOOLEAN :
         delivered' =
            IF email_alerts_enabled
               /\ send_email_alert(email_alerts_enabled, smtp_configured, smtp_ok)
            THEN delivered \cup {[key |-> "Monitoring Service Started", time |-> now]}
            ELSE delivered
    /\ pc' = "loop"
    /\ UNCHANGED <<now, schedVars, email_alerts_enabled, last_alert_times,
                   last_call, loopVars, healthVars, cycleVars>>

\* one pass of the loop body up to the sleep, monitoring enabled:
\* monitor_processes()
MonitorProcesses ==
    /\ pc = "loop"
    /\ monitoring_enabled
    /\ cycles < MaxCycles
    /\ \E smtp_ok_w, smtp_ok_p, post_ok_w, post_ok_p \in BOOLEAN :
         LET worker_status ==
                 check_process_schedule(now, now, worker_schedule, worker_tolerance)
             publisher_status ==
                 check_process_schedule(now, now, publisher_schedule,
                                        publisher_tolerance)
         IN  /\ delivered' = delivered \cup
                    OverdueMails(now, worker_status, publisher_status,
                                 email_alerts_enabled, smtp_configured,
                                 <<smtp_ok_w, smtp_ok_p>>)
             /\ monitoring_status' =
                    update_monitoring_status(
                        update_monitoring_status(monitoring_status, "worker",
                                                 worker_status, post_ok_w),
                        "publisher", publisher_status, post_ok_p)
    /\ cycles' = cycles + 1
    /\ pc' = "sleep"
    /\ UNCHANGED <<now, schedVars, email_alerts_enabled, last_alert_times,
                   last_call, monitoring_enabled, smtp_configured,
                   healthVars, cycleVars>>

\* one pass of the loop body up to the sleep, monitoring disabled
SkipChecks ==
    /\ pc = "loop"
    /\ ~monitoring_enabled
    /\ cycles < MaxCycles
    /\ cycles' = cycles + 1
    /\ pc' = "sleep"
    /\ UNCHANGED <<now, schedVars, alertVars, monitoring_enabled,
                   smtp_configured, monitoring_status, healthVars, cycleVars>>

\* time.sleep(self.health_check_interval)
Sleep ==
    /\ pc = "sleep"
    /\ now' = now + Seconds(health_check_interval)
    /\ pc' = "loop"
    /\ UNCHANGED <<schedVars, alertVars, loopVars, healthVars, cycleVars>>

NextBackground == RunStart \/ MonitorProcesses \/ SkipChecks \/ Sleep

SpecBackground == InitBackground /\ [][NextBackground]_vars

----------------------------------------------------------------------------
(* The three daemons step by step: run(), one cycle statement by statement, *)
(* the exception handlers and the interrupt                                 *)

\* the cycle of the API-only variant asking for the system status before
\* it posts its heartbeat
Order_SystemCheckFirst(i) ==
    IF i = "api"
    THEN <<"system_check", "heartbeat", "worker_check", "worker_alert",
           "publisher_check", "publisher_alert", "sleep">>
    ELSE <<"worker_check", "worker_record", "worker_alert",
           "publisher_check", "publisher_record", "publisher_alert", "sleep">>

\* the statements of one cycle, in the order the implementation runs them
Order(i) ==
    CASE i = "db" ->
           <<"worker_check", "worker_record", "worker_alert",
             "publisher_check", "publisher_record", "publisher_alert", "sleep">>
      [] i = "api" ->
           <<"heartbeat", "system_check", "worker_check", "worker_alert",
             "publisher_check", "publisher_alert", "sleep">>
      [] i = "background" ->
           <<"worker_check", "worker_alert", "worker_record",
             "publisher_check", "publisher_alert", "publisher_record", "sleep">>

\* the statement after statement p
After(i, p) ==
    LET k == CHOOSE j \in DOMAIN Order(i) : Order(i)[j] = p
    IN  Order(i)[k + 1]

\* the positions inside a cycle: every statement but the sleep
InCycle(i, p) == \E j \in 1..(Len(Order(i)) - 1) : Order(i)[j] = p

Services == {"worker", "publisher"}

\* "Worker" / "Publisher" in the subjects
Capitalized(service) == IF service = "worker" THEN "Worker" ELSE "Publisher"

\* the status test without 'error'
Alerted_NoError(status) == status \in {"degraded", "inactive"}

\* status in ['degraded', 'error', 'inactive']
Alerted(status) == status \in {"degraded", "error", "inactive"}

\* f"Worker Service {worker_health['status'].title()}"
Subject(service, status) == Capitalized(service) \o " Service " \o Title(status)

\* one entry of the trace
Did(op, service, what, ok) ==
    [op |-> op, service |-> service, what |-> what, ok |-> ok]

\* the status-only recording, skipped for a status that raises an alert
EmitStatus_UnlessAlerted(tr, service, status, accepted) ==
    IF Alerted(status) \/ status = "overdue"
    THEN tr
    ELSE Append(tr, Did("record", service, status, accepted))

\* record_monitoring_event(service, status, ...) / update_monitoring_status(
\* process_type, status_data): the insert or POST is attempted, and accepted
\* or failed and logged; what the sink then holds is outside the daemon and
\* nothing reads it back
EmitStatus(tr, service, status, accepted) ==
    Append(tr, Did("record", service, status, accepted))

\* check_overall_system_health(), API-only variant
check_overall_system_health(response, flt) ==
    IF flt = "query"
    THEN [status |-> "error", api_accessible |-> FALSE]
    ELSE IF Falsy(response)
    THEN [status |-> "error", api_accessible |-> FALSE]
    ELSE [status |-> Get(response.json, "status", "unknown"),
          api_accessible |-> TRUE]

\* what the data source can make of the checks of one cycle: no rows, a run
\* five minutes ago, the 00:00 run, a failing query; a newsletter ten hours
\* old; the API reporting the usual statuses, a status key missing, or
\* being unreachable
DbWorkerVerdicts(t) ==
    {check_worker_health(t, R, [r \in R |-> st], flt, 0) :
        R \in SUBSET {t - Minutes(5), Replace(t, 0, 0)},
        st \in {"completed", "failed"},
        flt \in {"none", "query"}}

DbPublisherVerdicts(t) ==
    {check_publisher_health(t, N, flt, 0) :
        N \in SUBSET {[generated_at |-> t - Hours(10),
                       title |-> "Daily Newsletter"]},
        flt \in {"none", "query"}}

DaemonWorkerJsons ==
    {[status |-> "healthy", recent_runs |-> 5, success_rate |-> Rate(95, 1)],
     [recent_runs |-> 5, success_rate |-> Rate(95, 1)],
     [status |-> "healthy", recent_runs |-> 5, success_rate |-> Rate(799, 10)],
     [status |-> "healthy", recent_runs |-> 0, success_rate |-> Rate(95, 1)]}

ApiWorkerVerdicts ==
    {api_check_worker_health(r, "none") :
        r \in {ApiNone} \cup {ApiJson(j) : j \in DaemonWorkerJsons}}

DaemonPublisherJsons(t) ==
    {[status |-> "healthy", recent_newsletters |-> 1,
      last_generation |-> t - Hours(10)],
     [recent_newsletters |-> 1, last_generation |-> t - Hours(10)],
     [status |-> "healthy", recent_newsletters |-> 1,
      last_generation |-> t - Hours(26)],
     [status |-> "healthy", recent_newsletters |-> 0]}

ApiPublisherVerdicts(t) ==
    {api_check_publisher_health(t, r, "none") :
        r \in {ApiNone} \cup {ApiJson(j) : j \in DaemonPublisherJsons(t)}}

\* the verdict of one service in one cycle
Verdicts(i, service, t) ==
    CASE i = "db" /\ service = "worker" -> DbWorkerVerdicts(t)
      [] i = "db" /\ service = "publisher" -> DbPublisherVerdicts(t)
      [] i = "api" /\ service = "worker" -> ApiWorkerVerdicts
      [] i = "api" /\ service = "publisher" -> ApiPublisherVerdicts(t)
      [] i = "background" /\ service = "worker" ->
           {check_process_schedule(t, t, worker_schedule, worker_tolerance)}
      [] i = "background" /\ service = "publisher" ->
           {check_process_schedule(t, t, publisher_schedule, publisher_tolerance)}

Health(service) == IF service = "worker" THEN worker_health ELSE publisher_health

\* clock readings at which a daemon is started
DaemonStarts == {2 * TicksPerDay + Minutes(45)}

InitDaemon ==
    /\ now \in DaemonStarts
    /\ pc = "run"
    /\ impl \in {"background", "db", "api"}
    /\ schedule_hours = <<>> /\ tolerance_minutes = 0 /\ observed_runs = {}
    /\ worker_runs = {} /\ newsletters = {} /\ db_fail = 0 /\ ret = NoRet
    /\ email_alerts_enabled \in BOOLEAN
    /\ last_alert_times = <<>>
    /\ delivered = {}
    /\ last_call = NoCall
    /\ cycles = 0
    /\ monitoring_enabled \in BOOLEAN
    /\ smtp_configured = TRUE
    /\ monitoring_status = NoStatus
    /\ HealthUnused
    /\ worker_health = NoVerdict
    /\ publisher_health = NoVerdict
    /\ trace = <<>>

\* self.send_alert(subject, message, service_name) as a statement of the
\* cycle: the gate state, the mailbox and the trace after it
SendAlertStep(service_name, subject, smtp_ok) ==
    LET r == send_alert(now, email_alerts_enabled, last_alert_times,
                        service_name, subject, smtp_ok)
        alert_key == AlertKey(service_name, subject)
    IN  /\ last_alert_times' = r.last_alert_times
        /\ delivered' = IF r.sent
                        THEN delivered \cup {[key |-> alert_key, time |-> now]}
                        ELSE delivered
        /\ last_call' = [key |-> alert_key, time |-> now,
                         smtp_ok |-> smtp_ok, sent |-> r.sent]
        /\ trace' = Append(trace, Did("send_alert", service_name, subject, r.sent))

\* self.send_email_alert(subject, message) as a statement of the background
\* service
SendEmailAlertStep(service_name, subject, smtp_ok) ==
    LET sent == send_email_alert(email_alerts_enabled, smtp_configured, smtp_ok)
    IN  /\ delivered' = IF sent
                        THEN delivered \cup {[key |-> subject, time |-> now]}
                        ELSE delivered
        /\ trace' = Append(trace, Did("send_email_alert", service_name,
                                      subject, sent))
        /\ UNCHANGED <<last_alert_times, last_call>>

\* run() up to the loop: the background service mails its startup notice,
\* the other two return at once when monitoring is disabled
DaemonRun ==
    /\ pc = "run"
    /\ IF impl = "background"
       THEN /\ pc' = "loop"
            /\ \E smtp_ok \in BOOLEAN :
                 IF email_alerts_enabled
                 THEN SendEmailAlertStep("monitoring",
                                         "Monitoring Service Started", smtp_ok)
                 ELSE UNCHANGED <<last_alert_times, delivered, last_call, trace>>
       ELSE /\ pc' = IF monitoring_enabled THEN "loop" ELSE "returned"
            /\ UNCHANGED <<last_alert_times, delivered, last_call, trace>>
    /\ UNCHANGED <<now, schedVars, email_alerts_enabled, loopVars, healthVars,
                   impl, worker_health, publisher_health>>

\* the top of the while loop: a new cycle begins (the background service
\* with monitoring disabled goes straight to its sleep)
CycleStart ==
    /\ pc = "loop"
    /\ cycles < MaxDaemonCycles
    /\ cycles' = cycles + 1
    /\ trace' = <<>>
    /\ pc' = IF impl = "background" /\ ~monitoring_enabled
             THEN "sleep" ELSE Order(impl)[1]
    /\ UNCHANGED <<now, schedVars, alertVars, monitoring_enabled,
                   smtp_configured, monitoring_status, healthVars, impl,
                   worker_health, publisher_health>>

\* self.record_monitoring_heartbeat()
Heartbeat ==
    /\ pc = "heartbeat"
    /\ \E post_ok \in BOOLEAN :
         trace' = Append(trace, Did("heartbeat", "monitoring", "active", post_ok))
    /\ pc' = After(impl, pc)
    /\ UNCHANGED <<now, schedVars, alertVars, loopVars, healthVars, impl,
                   worker_health, publisher_health>>

\* system_health = self.check_overall_system_health() and the early return
\* of the cycle when the API is not accessible
SystemCheck ==
    /\ pc = "system_check"
    /\ \E response \in {ApiNone, ApiJson([status |-> "healthy"])},
          smtp_ok \in BOOLEAN :
         LET system_health == check_overall_system_health(response, "none")
             checked == Append(trace, Did("check", "system", system_health.status,
                                          system_health.api_accessible))
         IN  IF ~system_health.api_accessible
             THEN LET r == send_alert(now, email_alerts_enabled, last_alert_times,
                                      "monitoring", "API Connection Failed",
                                      smtp_ok)
                      alert_key == AlertKey("monitoring", "API Connection Failed")
                  IN  /\ last_alert_times' = r.last_alert_times
                      /\ delivered' =
                           IF r.sent
                           THEN delivered \cup {[key |-> alert_key, time |-> now]}
                           ELSE delivered
                      /\ last_call' = [key |-> alert_key, time |-> now,
                                       smtp_ok |-> smtp_ok, sent |-> r.sent]
                      /\ trace' = Append(checked,
                                    Did("send_alert", "monitoring",
                                        "API Connection Failed", r.sent))
                      /\ pc' = "sleep"
             ELSE /\ trace' = checked
                  /\ pc' = After(impl, pc)
                  /\ UNCHANGED <<last_alert_times, delivered, last_call>>
    /\ UNCHANGED <<now, schedVars, email_alerts_enabled, loopVars, healthVars,
                   impl, worker_health, publisher_health>>

\* worker_health = self.check_worker_health() and the publisher's like it
\* (background service: check_process_schedule)
Check ==
    /\ \E service \in Services :
         /\ pc = service \o "_check"
         /\ \E v \in Verdicts(impl, service, now) :
              /\ worker_health' = IF service = "worker" THEN v ELSE worker_health
              /\ publisher_health' =
                    IF service = "publisher" THEN v ELSE publisher_health
              /\ trace' = Append(trace, Did("check", service, v.status, TRUE))
    /\ pc' = After(impl, pc)
    /\ UNCHANGED <<now, schedVars, alertVars, loopVars, healthVars, impl>>

\* self.record_monitoring_event(service, status, health) (DB variant) and
\* self.update_monitoring_status(service, status) (background service)
Record ==
    /\ \E service \in Services :
         /\ pc = service \o "_record"
         /\ \E accepted \in BOOLEAN :
              trace' = EmitStatus(trace, service, Health(service).status,
                                  accepted)
    /\ pc' = After(impl, pc)
    /\ UNCHANGED <<now, schedVars, alertVars, loopVars, healthVars, impl,
                   worker_health, publisher_health>>

\* the if statement that follows a check: send_alert for a status in
\* ['degraded', 'error', 'inactive'] (DB and API-only variant),
\* send_email_alert for the status 'overdue' (background service)
Alert ==
    /\ \E service \in Services :
         /\ pc = service \o "_alert"
         /\ \E smtp_ok \in BOOLEAN :
              LET status == Health(service).status
              IN  IF impl = "background"
                  THEN IF status = "overdue"
                       THEN SendEmailAlertStep(service,
                                Capitalized(service) \o " Process Overdue",
                                smtp_ok)
                       ELSE UNCHANGED <<last_alert_times, delivered, last_call,
                                        trace>>
                  ELSE IF Alerted(status)
                       THEN SendAlertStep(service, Subject(service, status),
                                          smtp_ok)
                       ELSE UNCHANGED <<last_alert_times, delivered, last_call,
                                        trace>>
    /\ pc' = After(impl, pc)
    /\ UNCHANGED <<now, schedVars, email_alerts_enabled, loopVars, healthVars,
                   impl, worker_health, publisher_health>>

\* time.sleep(self.health_check_interval) returns: the cycle is history
DaemonSleep ==
    /\ pc = "sleep"
    /\ now' = now + Seconds(health_check_interval)
    /\ pc' = "loop"
    /\ trace' = <<>>
    /\ worker_health' = NoVerdict
    /\ publisher_health' = NoVerdict
    /\ last_call' = NoCall
    /\ UNCHANGED <<schedVars, email_alerts_enabled, last_alert_times, delivered,
                   loopVars, healthVars, impl>>

\* an exception other than an interrupt leaves a statement of the cycle.
\* DB and API-only variant: the except clause of run_monitoring_cycle
\* reports it and the cycle is over; background service: the except clause
\* of the loop in run()
CycleRaises ==
    /\ InCycle(impl, pc)
    /\ IF impl = "background"
       THEN /\ pc' = "backoff"
            /\ trace' = Append(trace, Did("raise", "monitoring", pc, FALSE))
            /\ UNCHANGED <<last_alert_times, delivered, last_call>>
       ELSE /\ pc' = "sleep"
            /\ \E smtp_ok \in BOOLEAN :
                 LET r == send_alert(now, email_alerts_enabled, last_alert_times,
                                     "monitoring", "Monitoring System Error",
                                     smtp_ok)
                     alert_key == AlertKey("monitoring", "Monitoring System Error")
                 IN  /\ last_alert_times' = r.last_alert_times
                     /\ delivered' =
                          IF r.sent
                          THEN delivered \cup {[key |-> alert_key, time |-> now]}
                          ELSE delivered
                     /\ last_call' = [key |-> alert_key, time |-> now,
                                      smtp_ok |-> smtp_ok, sent |-> r.sent]
                     /\ trace' = Append(Append(trace,
                                     Did("raise", "monitoring", pc, FALSE)),
                                     Did("send_alert", "monitoring",
                                         "Monitoring System Error", r.sent))
    /\ UNCHANGED <<now, schedVars, email_alerts_enabled, loopVars, healthVars,
                   impl, worker_health, publisher_health>>

\* time.sleep raises an exception other than an interrupt.  DB and API-only
\* variant: "except Exception" of run() logs and re-raises, main() exits;
\* background service: the except clause of the loop
SleepRaises ==
    /\ pc = "sleep"
    /\ pc' = IF impl = "background" THEN "backoff" ELSE "crashed"
    /\ trace' = Append(trace, Did("raise", "monitoring", pc, FALSE))
    /\ UNCHANGED <<now, schedVars, alertVars, loopVars, healthVars, impl,
                   worker_health, publisher_health>>

\* time.sleep(60) of the background service's except clause returns
Backoff ==
    /\ pc = "backoff"
    /\ now' = now + Seconds(60)
    /\ pc' = "loop"
    /\ trace' = <<>>
    /\ worker_health' = NoVerdict
    /\ publisher_health' = NoVerdict
    /\ last_call' = NoCall
    /\ UNCHANGED <<schedVars, email_alerts_enabled, last_alert_times, delivered,
                   loopVars, healthVars, impl>>

\* KeyboardInterrupt arrives while the loop runs: no except clause inside
\* the cycle catches it (they catch Exception), the one of run() does
Interrupt ==
    /\ InCycle(impl, pc) \/ pc = "sleep"
    /\ pc' = "stopped"
    /\ trace' = Append(trace, Did("interrupt", "monitoring", pc, FALSE))
    /\ UNCHANGED <<now, schedVars, alertVars, loopVars, healthVars, impl,
                   worker_health, publisher_health>>

NextDaemon ==
    \/ DaemonRun
    \/ CycleStart
    \/ Heartbeat
    \/ SystemCheck
    \/ Check
    \/ Record
    \/ Alert
    \/ DaemonSleep
    \/ CycleRaises
    \/ SleepRaises
    \/ Backoff
    \/ Interrupt

SpecDaemon == InitDaemon /\ [][NextDaemon]_vars

----------------------------------------------------------------------------
(* Properties of the schedule functions *)

\* the instant hour:minute of the UTC day of t
TodayAt(t, hour, minute) ==
    (t \div TicksPerDay) * TicksPerDay + (hour * 60 + minute) * TicksPerMin

\* the instant an isoformat string denotes
FromIso(s) ==
    s.date * TicksPerDay + (s.hour * 60 + s.minute) * TicksPerMin + s.second

BgReturned == pc = "done" /\ ret.fn = "check_process_schedule"
BgWorker   == BgReturned /\ schedule_hours = worker_schedule
DbWorkerReturned    == pc = "done" /\ ret.fn = "check_worker_schedule"
DbPublisherReturned == pc = "done" /\ ret.fn = "check_publisher_schedule"

\* an observed run inside the tolerance window of the scheduled time S
RanInWindow(S) ==
    \E r \in observed_runs : S <= r /\ r <= S + tolerance_minutes * TicksPerMin

\* C4: check_process_schedule reports a scheduled time overdue only when no
\* observed run of the process lies in the window of that scheduled time.
C4_OverdueOnlyWithoutRun ==
    (BgReturned /\ ret.value.status = "overdue")
        => ~RanInWindow(FromIso(ret.value.scheduled_time))

\* C5: for every scheduled time S of the schedule and every now with
\* S <= now <= S + tolerance, check_process_schedule returns on_schedule.
C5_OnScheduleInsideWindow ==
    BgReturned =>
        \A h \in Range(schedule_hours) :
            LET S == TodayAt(now, h, 0)
            IN  (S <= now /\ now <= S + tolerance_minutes * TicksPerMin)
                    => ret.value.status = "on_schedule"

\* the scheduled instants of today and tomorrow
ScheduledInstants(t, hours) ==
    {TodayAt(t, h, 0) + d * TicksPerDay : h \in Range(hours), d \in {0, 1}}

EarliestLater(t, hours) ==
    CHOOSE x \in ScheduledInstants(t, hours) :
        /\ x > t
        /\ \A y \in ScheduledInstants(t, hours) : y > t => x <= y

\* C6: for the worker schedule, at a time outside every [scheduled_time,
\* deadline] window (each scheduled time already past its deadline having
\* had its run), the status is waiting and next_scheduled is the next
\* entry (now = 03:00: today's 06:00).
C6_WaitingBetweenWindows ==
    (/\ BgWorker
     /\ \A h \in Range(schedule_hours) :
            LET S == TodayAt(now, h, 0)
            IN  /\ ~(S <= now /\ now <= S + tolerance_minutes * TicksPerMin)
                /\ (now > S + tolerance_minutes * TicksPerMin => RanInWindow(S)))
        => /\ ret.value.status = "waiting"
           /\ FromIso(ret.value.next_scheduled) = EarliestLater(now, schedule_hours)

\* C7 as stated: at now = 00:10 with no observed run the worker's verdict is
\* overdue / missed run for the 00:00 entry of the same UTC date.
C7_MidnightOverdueAtTen ==
    /\ (BgWorker /\ HourOf(now) = 0 /\ MinuteOf(now) = 10 /\ observed_runs = {})
         => /\ ret.value.status = "overdue"
            /\ FromIso(ret.value.scheduled_time) = TodayAt(now, 0, 0)
    /\ (DbWorkerReturned /\ HourOf(now) = 0 /\ MinuteOf(now) = 10
          /\ worker_runs = {} /\ db_fail = 0)
         => MissedRun("00:00") \in Range(ret.value)

\* C7 as amended: at now = 00:10 the worker's verdict is on_schedule for
\* today's 00:00 (background) and carries no missed-run issue (DB variant);
\* a verdict that reports the 00:00 entry overdue / missed is returned only
\* when now is later than 00:30 of the same UTC date, and the 00:00 it names
\* is the one of the UTC date of now.
C7_MidnightEntryIsTodays ==
    /\ (BgWorker /\ HourOf(now) = 0 /\ MinuteOf(now) = 10)
         => /\ ret.value.status = "on_schedule"
            /\ FromIso(ret.value.scheduled_time) = TodayAt(now, 0, 0)
    /\ (BgWorker /\ ret.value.status = "overdue"
          /\ ret.value.scheduled_time.hour = 0)
         => /\ FromIso(ret.value.scheduled_time) = TodayAt(now, 0, 0)
            /\ now > TodayAt(now, 0, 30)
    /\ (DbWorkerReturned /\ HourOf(now) = 0 /\ MinuteOf(now) = 10)
         => MissedRun("00:00") \notin Range(ret.value)
    /\ (DbWorkerReturned /\ MissedRun("00:00") \in Range(ret.value))
         => /\ now > TodayAt(now, 0, 30)
            /\ ~\E r \in worker_runs :
                   TodayAt(now, 0, 0) - 15 * TicksPerMin <= r
                   /\ r <= TodayAt(now, 0, 30)

C7_Witness ==
    /\ BgWorker /\ HourOf(now) = 0 /\ MinuteOf(now) = 10 /\ observed_runs = {}
    /\ ret.value.status = "on_schedule"

\* C8: when now is later than scheduled_time + tolerance for a scheduled
\* time of today with no observed run, the verdict is overdue and its
\* minutes_overdue is the whole minutes from the scheduled_time it names.
C8_OverdueAfterDeadline ==
    (/\ BgReturned
     /\ observed_runs = {}
     /\ \E h \in Range(schedule_hours) :
            now > TodayAt(now, h, 0) + tolerance_minutes * TicksPerMin)
        => /\ ret.value.status = "overdue"
           /\ ret.value.minutes_overdue
                = (now - FromIso(ret.value.scheduled_time)) \div TicksPerMin

\* C9: get_next_scheduled_time returns the earliest scheduled instant that
\* is strictly later than now: never at or before now, and with no
\* scheduled instant strictly between now and it.
C9_NextScheduledIsEarliestLater ==
    (pc = "done" /\ ret.fn = "get_next_scheduled_time")
        => /\ ret.value \in ScheduledInstants(now, schedule_hours)
           /\ ret.value > now
           /\ \A x \in ScheduledInstants(now, schedule_hours) :
                  ~(now < x /\ x < ret.value)

\* an unsorted schedule whose entries of today have all passed
C9_Witness ==
    /\ pc = "done" /\ ret.fn = "get_next_scheduled_time"
    /\ schedule_hours = <<7, 0>>
    /\ HourOf(now) = 7
    /\ ret.value = TodayAt(now, 0, 0) + TicksPerDay

\* C10: the DB schedule checks add the missed-run issue of a scheduled time
\* T of today only if now > T + max_delay and no run lies in the closed
\* window [T - lookback, T + max_delay], and, when no query raised, in
\* every such case.
C10_MissedIssueExactlyWhenWindowEmpty ==
    /\ DbWorkerReturned =>
         \A s \in Range(worker_schedule_times) :
            LET hm == ParseHHMM(s)
                T == TodayAt(now, hm[1], hm[2])
                due == now > T + worker_max_delay_minutes * TicksPerMin
                ran == \E r \in worker_runs :
                          /\ T - 15 * TicksPerMin <= r
                          /\ r <= T + worker_max_delay_minutes * TicksPerMin
            IN  /\ MissedRun(s) \in Range(ret.value) => (due /\ ~ran)
                /\ (ScheduleCheckFailed \notin Range(ret.value) /\ due /\ ~ran)
                      => MissedRun(s) \in Range(ret.value)
    /\ DbPublisherReturned =>
         \A s \in Range(publisher_schedule_times) :
            LET hm == ParseHHMM(s)
                T == TodayAt(now, hm[1], hm[2])
                due == now > T + publisher_max_delay_minutes * TicksPerMin
                ran == \E n \in newsletters :
                          /\ n.title = "Daily Newsletter"
                          /\ T - 30 * TicksPerMin <= n.generated_at
                          /\ n.generated_at
                               <= T + publisher_max_delay_minutes * TicksPerMin
            IN  /\ MissedGeneration(s) \in Range(ret.value) => (due /\ ~ran)
                /\ (ScheduleCheckFailed \notin Range(ret.value) /\ due /\ ~ran)
                      => MissedGeneration(s) \in Range(ret.value)

\* an early start exactly the lookback before 06:00 suppresses the 06:00
\* issue while the 12:00 and 00:00 runs are reported missed
C10_Witness ==
    /\ DbWorkerReturned
    /\ worker_runs = {TodayAt(now, 5, 45)}
    /\ ret.value = <<MissedRun("12:00"), MissedRun("00:00")>>

----------------------------------------------------------------------------
(* Properties of the alert gate *)

CooldownTicks == alert_cooldown_minutes * TicksPerMin

PriorDeliveries ==
    {e.time : e \in {x \in delivered : x.key = last_call.key}}
        \ (IF last_call.sent THEN {last_call.time} ELSE {})

\* C3: with alerts enabled and SMTP succeeding, a send_alert call sends the
\* e-mail exactly when its key was never delivered or at least
\* alert_cooldown_minutes have passed since the key's last delivery: a call
\* less than 30 minutes after a delivering call sends nothing, a call 31
\* minutes after it sends.
C3_SendsExactlyAfterCooldown ==
    (last_call # NoCall /\ email_alerts_enabled /\ last_call.smtp_ok)
        => (last_call.sent
              <=> \A p \in PriorDeliveries :
                      last_call.time - p >= CooldownTicks)

\* a call 31 minutes after the key's last delivery went out
C3_Witness ==
    /\ last_call.sent
    /\ \E p \in PriorDeliveries :
          /\ last_call.time - p = (alert_cooldown_minutes + 1) * TicksPerMin
          /\ \A q \in PriorDeliveries : q <= p

----------------------------------------------------------------------------
(* Properties of the background service's alerts *)

\* C2: while a process stays overdue over consecutive cycles, its overdue
\* e-mail is not sent again inside the cooldown window of 30 minutes.
C2_OverdueMailNotRepeatedInCooldown ==
    \A e1, e2 \in delivered :
        (/\ e1.key = e2.key
         /\ e1.key \in {"Worker Process Overdue", "Publisher Process Overdue"}
         /\ e1.time < e2.time)
            => e2.time - e1.time >= CooldownTicks

----------------------------------------------------------------------------
(* Properties of the health checks *)

Returned(fn) == pc = "done" /\ ret.fn = fn

\* the verdict went through "Analyze health": it is not the one of an
\* except clause or of a failed request
Aggregated == "issues" \in DOMAIN ret.value /\ ret.value.status # "error"

HasIssue(v, text) == \E i \in DOMAIN v.issues : v.issues[i].text = text

\* the worker runs of the last two hours, and the completed ones
RecentRunTimes == {r \in worker_runs : r >= now - 2 * 60 * TicksPerMin}
CompletedRecent == {r \in RecentRunTimes : run_status[r] = "completed"}

\* the success rate the API reported, as dict.get sees it
ReportedRate ==
    IF "success_rate" \in DOMAIN api_response.json
    THEN api_response.json.success_rate ELSE [num |-> 0, den |-> 1]
ReportedStatus(json) ==
    IF "status" \in DOMAIN json THEN json.status ELSE "unknown"
ReportedCount(json, key) == IF key \in DOMAIN json THEN json[key] ELSE 0

ScheduleIssueTexts == {"Missed scheduled run at", "Missed scheduled generation at",
                       "Schedule check failed"}
HasScheduleIssue(v) ==
    \E i \in DOMAIN v.issues : v.issues[i].text \in ScheduleIssueTexts

\* C11: with at least one observed run, the success-rate check of
\* check_worker_health degrades the worker and adds the 'Low success rate'
\* issue exactly when completed / total * 100 < 80: a rate of exactly 80%
\* changes neither status nor issues, a rate of 79.9% does.
C11_DegradedExactlyBelowEighty ==
    /\ (Returned("check_worker_health") /\ fault = "none"
          /\ RecentRunTimes # {})
         => LET low == Cardinality(CompletedRecent) * 100
                          < 80 * Cardinality(RecentRunTimes)
            IN  /\ low => ret.value.status = "degraded"
                /\ low <=> HasIssue(ret.value, "Low success rate:")
                /\ (~low /\ ~HasScheduleIssue(ret.value))
                      => ret.value.status = "healthy"
    /\ (Returned("api_check_worker_health") /\ Aggregated
          /\ ret.value.recent_runs > 0)
         => LET low == ReportedRate.num < 80 * ReportedRate.den
            IN  /\ low => ret.value.status = "degraded"
                /\ low <=> HasIssue(ret.value, "Low success rate:")
                /\ ~low => /\ ret.value.status
                                = ReportedStatus(api_response.json)
                           /\ Len(ret.value.issues)
                                = Len(IF "issues" \in DOMAIN api_response.json
                                      THEN api_response.json.issues ELSE <<>>)

\* four completed runs of five leave the worker healthy
C11_Witness ==
    /\ Returned("check_worker_health")
    /\ Cardinality(RecentRunTimes) = 5
    /\ Cardinality(CompletedRecent) = 4
    /\ ret.value.status = "healthy"
    /\ ret.value.issues = <<>>

\* the newest generation timestamp the data source holds
NewestGeneration ==
    IF ret.fn = "check_publisher_health"
    THEN LET G == {n.generated_at : n \in {x \in newsletters :
                                              x.title = "Daily Newsletter"}}
         IN  IF G = {} THEN -1 ELSE CHOOSE g \in G : \A h \in G : h <= g
    ELSE IF api_response.ok /\ "last_generation" \in DOMAIN api_response.json
    THEN api_response.json.last_generation
    ELSE -1

\* C12: whenever the most recent generation timestamp is more than 25 hours
\* before now, the verdict of check_publisher_health is degraded and carries
\* the issue 'No generation in H hours' (26 hours ago: '26.0'); when it is
\* 25 hours old or less, no such issue is added.
C12_StaleGenerationDegrades ==
    (/\ pc = "done"
     /\ ret.fn \in {"check_publisher_health", "api_check_publisher_health"}
     /\ fault = "none"
     /\ ret.value.status # "error"
     /\ NewestGeneration # -1)
        => IF now - NewestGeneration > 25 * 60 * TicksPerMin
           THEN /\ ret.value.status = "degraded"
                /\ HasIssue(ret.value, "No generation in")
                /\ (now - NewestGeneration = 26 * 60 * TicksPerMin
                      => \E i \in DOMAIN ret.value.issues :
                            ret.value.issues[i] = [text |-> "No generation in",
                                                   at |-> "26.0 hours"])
           ELSE ~HasIssue(ret.value, "No generation in")

\* C13: whenever zero runs are observed for the worker the verdict of
\* check_worker_health is inactive, and whenever zero recent newsletters
\* are observed the verdict of check_publisher_health is inactive, whatever
\* the success rate, the status the API reported, the freshness and the
\* schedule issues are.
C13_NothingObservedIsInactive ==
    /\ (Returned("check_worker_health") /\ fault = "none"
          /\ RecentRunTimes = {})
         => ret.value.status = "inactive"
    /\ (Returned("check_publisher_health") /\ fault = "none"
          /\ ~\E n \in newsletters :
                 /\ n.title = "Daily Newsletter"
                 /\ n.generated_at >= now - 24 * 60 * TicksPerMin)
         => ret.value.status = "inactive"
    /\ (Returned("api_check_worker_health") /\ Aggregated
          /\ ReportedCount(api_response.json, "recent_runs") = 0)
         => ret.value.status = "inactive"
    /\ (Returned("api_check_publisher_health") /\ Aggregated
          /\ ReportedCount(api_response.json, "recent_newsletters") = 0)
         => ret.value.status = "inactive"

\* the API reports the worker healthy, a success rate below 80 and no run:
\* the low rate degrades it, the missing runs make it inactive
C13_Witness ==
    /\ Returned("api_check_worker_health")
    /\ api_response.ok
    /\ ReportedStatus(api_response.json) = "healthy"
    /\ ReportedRate = [num |-> 799, den |-> 10]
    /\ ReportedCount(api_response.json, "recent_runs") = 0
    /\ HasIssue(ret.value, "Low success rate:")
    /\ ret.value.status = "inactive"

\* C14: every verdict of check_worker_health and check_publisher_health
\* (DB and API-only variant), for every answer of the data source, has a
\* non-empty issue list whenever its status is not healthy / on_schedule.
C14_UnhealthyVerdictHasIssue ==
    (/\ pc = "done"
     /\ ret.fn \in {"check_worker_health", "check_publisher_health",
                    "api_check_worker_health", "api_check_publisher_health"})
        => (ret.value.status \notin {"healthy", "on_schedule"}
              => ret.value.issues # <<>>)

\* the status of "Analyze health", before the schedule check
WorkerStatusBefore ==
    IF RecentRunTimes = {} THEN "inactive"
    ELSE IF Cardinality(CompletedRecent) * 100 < 80 * Cardinality(RecentRunTimes)
    THEN "degraded" ELSE "healthy"

RecentGenerations ==
    {n.generated_at : n \in {x \in newsletters :
         /\ x.title = "Daily Newsletter"
         /\ x.generated_at >= now - 24 * 60 * TicksPerMin}}

PublisherStatusBefore ==
    IF RecentGenerations = {} THEN "inactive"
    ELSE IF \A g \in RecentGenerations : now - g > 25 * 60 * TicksPerMin
    THEN "degraded" ELSE "healthy"

\* C15: in the DB variant the schedule check never improves the aggregate
\* status: with any schedule issue the final status is not healthy (healthy
\* becomes degraded), and a status that was degraded or inactive before the
\* schedule check is the same after it, with or without schedule issues.
C15_ScheduleNeverImproves ==
    /\ (Returned("check_worker_health") /\ fault = "none")
         => /\ HasScheduleIssue(ret.value) => ret.value.status # "healthy"
            /\ (HasScheduleIssue(ret.value) /\ WorkerStatusBefore = "healthy")
                  => ret.value.status = "degraded"
            /\ WorkerStatusBefore \in {"degraded", "inactive"}
                  => ret.value.status = WorkerStatusBefore
    /\ (Returned("check_publisher_health") /\ ret.value.status # "error")
         => /\ HasScheduleIssue(ret.value) => ret.value.status # "healthy"
            /\ (HasScheduleIssue(ret.value) /\ PublisherStatusBefore = "healthy")
                  => ret.value.status = "degraded"
            /\ PublisherStatusBefore \in {"degraded", "inactive"}
                  => ret.value.status = PublisherStatusBefore

\* no run in the last two hours and the 00:00 and 06:00 runs missed: the
\* worker stays inactive
C15_Witness ==
    /\ Returned("check_worker_health")
    /\ fault = "none"
    /\ WorkerStatusBefore = "inactive"
    /\ HasIssue(ret.value, "Missed scheduled run at")
    /\ ret.value.status = "inactive"

----------------------------------------------------------------------------
(* Properties of the cycle and of the run loop *)

\* the cycle under way has come to its sleep without an exception
CycleRanThrough ==
    /\ pc = "sleep"
    /\ trace # <<>>
    /\ \A k \in DOMAIN trace : trace[k].op # "raise"

\* the verdict of the service in the cycle under way, once it is there
Verdict(service) == IF service = "worker" THEN worker_health ELSE publisher_health

AlertCallFor(service) ==
    \E k \in DOMAIN trace :
        /\ trace[k].op \in {"send_alert", "send_email_alert"}
        /\ trace[k].service = service

\* C16: for each monitored service whose verdict in a cycle is anything
\* other than healthy / on_schedule / waiting, the cycle invokes the
\* notifier for that service; no unhealthy status is passed over.
C16_UnhealthyStatusAlerts ==
    CycleRanThrough =>
        \A service \in {"worker", "publisher"} :
            (/\ Verdict(service).status # "none"
             /\ Verdict(service).status \notin {"healthy", "on_schedule", "waiting"})
                => AlertCallFor(service)

RecordFor(service, status) ==
    \E k \in DOMAIN trace :
        /\ trace[k].op = "record"
        /\ trace[k].service = service
        /\ trace[k].what = status

\* C17: every monitoring cycle of the DB variant and of the background
\* service hands the status sink one record per monitored service carrying
\* that cycle's status, whether the cycle's alert was sent, suppressed by
\* the cooldown, disabled or failed in delivery; in the DB variant the
\* record of a service is out before the alert for it is attempted.
C17_StatusRecordedEveryCycle ==
    impl \in {"db", "background"} =>
        /\ CycleRanThrough =>
             \A service \in {"worker", "publisher"} :
                 RecordFor(service, Verdict(service).status)
        /\ impl = "db" =>
             \A k \in DOMAIN trace :
                 (trace[k].op = "send_alert" /\ trace[k].service # "monitoring")
                    => \E j \in 1..(k - 1) :
                          /\ trace[j].op = "record"
                          /\ trace[j].service = trace[k].service
                          /\ trace[j].what = Verdict(trace[k].service).status

\* a second cycle whose worker alert the cooldown held back, and whose
\* worker status was recorded all the same
C17_Witness ==
    /\ impl = "db"
    /\ CycleRanThrough
    /\ email_alerts_enabled
    /\ worker_health.status = "degraded"
    /\ "worker_Worker Service Degraded" \in DOMAIN last_alert_times
    /\ last_alert_times["worker_Worker Service Degraded"] < now
    /\ \E k \in DOMAIN trace :
          /\ trace[k].op = "send_alert"
          /\ trace[k].service = "worker"
          /\ ~trace[k].ok
    /\ RecordFor("worker", "degraded")
    /\ RecordFor("publisher", publisher_health.status)

\* the data source failed a check of the cycle under way
DataSourceFailed ==
    \E k \in DOMAIN trace : trace[k].op = "check" /\ trace[k].what = "error"

SystemErrorAlert ==
    \E k \in DOMAIN trace :
        /\ trace[k].op = "send_alert"
        /\ trace[k].service = "monitoring"
        /\ trace[k].what = "Monitoring System Error"

ExceptionEscaped ==
    /\ trace # <<>>
    /\ trace[Len(trace)].op = "raise"
    /\ impl = "background" \/ trace[Len(trace)].what = "sleep"

\* C19: in each of the three run loops an exception (other than an
\* interrupt) that escapes a cycle or the sleep does not end the daemon:
\* the loop waits its fixed backoff and starts another cycle.
C19_ExceptionDoesNotEndDaemon ==
    /\ ExceptionEscaped => pc = "backoff"
    /\ pc # "crashed"

\* C20: an interrupt stops the daemon only between cycles: a cycle that has
\* started runs to its end before the run loop exits.
C20_InterruptOnlyBetweenCycles ==
    pc = "stopped" =>
        /\ trace[Len(trace)].op = "interrupt"
        /\ trace[Len(trace)].what = "sleep"

----------------------------------------------------------------------------
(* Properties of the health checks: malformed timestamps *)

\* the data source supplied a last-generation timestamp and fromisoformat
\* rejected it
MalformedTimestampSupplied ==
    /\ fault = "parse"
    /\ \/ /\ Returned("check_publisher_health")
          /\ NewestGeneration >= now - 24 * 60 * TicksPerMin
       \/ /\ Returned("api_check_publisher_health")
          /\ api_response.ok
          /\ "last_generation" \in DOMAIN api_response.json

ParseFailureTexts == {"Health check failed", "Invalid generation timestamp"}

\* C21: when the last-generation timestamp supplied by the data source is
\* malformed, check_publisher_health returns a verdict (it does not raise)
\* whose status is error or degraded and which carries an issue string
\* describing the parse failure.
C21_MalformedTimestampDemotes ==
    MalformedTimestampSupplied =>
        /\ ret.value.status \in {"error", "degraded"}
        /\ \E i \in DOMAIN ret.value.issues :
              ret.value.issues[i].text \in ParseFailureTexts

----------------------------------------------------------------------------
(* Properties of send_alert: the cooldown map *)

\* the step is a send_alert call: last_call' describes it
AlertCallStep == last_call' # last_call \/ last_alert_times' # last_alert_times

\* the call of the step returned before the SMTP session or the session raised
NothingDelivered ==
    \/ ~email_alerts_enabled
    \/ Suppressed(now, last_alert_times, last_call'.key)
    \/ ~last_call'.smtp_ok

\* C22: send_alert changes last_alert_times only when the SMTP delivery
\* succeeded, and then sets exactly the entry of the call's (service,
\* subject) key to the call's time, every other entry staying as it was;
\* when alerts are disabled, the cooldown is active or the delivery raises,
\* the map is left unchanged, so a failed delivery starts no cooldown.
C22_MapChangesOnlyOnDelivery ==
    [][AlertCallStep =>
         IF NothingDelivered
         THEN last_alert_times' = last_alert_times
         ELSE /\ DOMAIN last_alert_times' =
                    DOMAIN last_alert_times \cup {last_call'.key}
              /\ last_alert_times'[last_call'.key] = now
              /\ \A k \in DOMAIN last_alert_times :
                    k # last_call'.key
                       => last_alert_times'[k] = last_alert_times[k]]_vars

\* a delivery that raised left no entry for its key, beside the entry a
\* successful delivery of another key has set
C22_Witness ==
    /\ email_alerts_enabled
    /\ ~last_call.smtp_ok
    /\ last_call.key # ""
    /\ last_call.key \notin DOMAIN last_alert_times
    /\ DOMAIN last_alert_times # {}

----------------------------------------------------------------------------
(* Properties of the cooldown keys in the cycle *)

\* the keys the cycle of the DB and the API-only variant can call send_alert
\* with: one per service and alerted status, and the two of 'monitoring'
StatusAlertKeys ==
    {"worker_Worker Service Degraded", "worker_Worker Service Error",
     "worker_Worker Service Inactive", "publisher_Publisher Service Degraded",
     "publisher_Publisher Service Error", "publisher_Publisher Service Inactive"}
MonitoringAlertKeys ==
    {"monitoring_Monitoring System Error", "monitoring_API Connection Failed"}

\* the latest send_alert call of the cycle got past the enabled test, its
\* SMTP session would have run through, and yet nothing was sent
LatestCallSuppressed ==
    /\ impl \in {"db", "api"}
    /\ last_call.key # ""
    /\ email_alerts_enabled
    /\ last_call.smtp_ok
    /\ ~last_call.sent

\* C23: a send_alert call is suppressed only by a recorded delivery of its
\* own (service, subject) key less than the cooldown before it, never by a
\* delivery for another service or another subject, so that a status that
\* changes between cycles is mailed once per distinct status; and the keys
\* stored in last_alert_times are among the (service, status) subjects and
\* the fixed 'monitoring' subjects.
C23_SuppressedOnlyBySameKey ==
    /\ LatestCallSuppressed =>
          \E d \in delivered :
              /\ d.key = last_call.key
              /\ d.time <= last_call.time
              /\ (last_call.time - d.time) < 30 * TicksPerMin
    /\ impl \in {"db", "api"} =>
          /\ DOMAIN last_alert_times \subseteq
                 StatusAlertKeys \cup MonitoringAlertKeys
          /\ \A d \in delivered :
                 /\ d.key \in DOMAIN last_alert_times
                 /\ last_alert_times[d.key] >= d.time

\* the worker was degraded in one cycle and inactive in the next, five
\* minutes later, and both e-mails went out
C23_Witness ==
    /\ impl \in {"db", "api"}
    /\ \E d1, d2 \in delivered :
          /\ d1.key = "worker_Worker Service Degraded"
          /\ d2.key = "worker_Worker Service Inactive"
          /\ d1.time # d2.time
          /\ d2.time - d1.time < 30 * TicksPerMin
          /\ d1.time - d2.time < 30 * TicksPerMin
    /\ last_call.sent
    /\ last_call.time = now
    /\ Cardinality(DOMAIN last_alert_times) >= 2

----------------------------------------------------------------------------
(* Properties of the cycle of the API-only variant *)

\* the statements of the cycle under way that were carried out, without
\* the entries of an exception or an interrupt
Steps == SelectSeq(trace, LAMBDA e : e.op \notin {"raise", "interrupt"})

Undisturbed == Len(Steps) = Len(trace)

IsStep(e, op, service) == e.op = op /\ e.service = service

\* the overall system status request of the cycle under way has failed
SystemCheckFailed ==
    /\ impl = "api"
    /\ Len(Steps) >= 2
    /\ IsStep(Steps[2], "check", "system")
    /\ ~Steps[2].ok

\* the steps come in the order heartbeat, system check, worker, publisher
ApiCycleInOrder ==
    /\ Len(Steps) >= 1 /\ Steps[1].op # "send_alert"
          => IsStep(Steps[1], "heartbeat", "monitoring")
    /\ Len(Steps) >= 2 /\ Steps[2].op # "send_alert"
          => IsStep(Steps[2], "check", "system")
    /\ \A k \in DOMAIN Steps :
          /\ IsStep(Steps[k], "check", "system") => k = 2
          /\ Steps[k].op = "heartbeat" => k = 1
          /\ IsStep(Steps[k], "check", "worker") =>
                /\ k = 3
                /\ IsStep(Steps[1], "heartbeat", "monitoring")
                /\ IsStep(Steps[2], "check", "system")
                /\ Steps[2].ok
          /\ IsStep(Steps[k], "check", "publisher") =>
                /\ k > 3
                /\ IsStep(Steps[3], "check", "worker")
          /\ Steps[k].service \in {"worker", "publisher"} => k >= 3

\* after a failed system status request: one alert, nothing else, the sleep
ApiCycleCutShort ==
    SystemCheckFailed =>
        /\ Len(Steps) = 3
        /\ Steps[3] = [op |-> "send_alert", service |-> "monitoring",
                       what |-> "API Connection Failed", ok |-> Steps[3].ok]
        /\ worker_health.status = "none"
        /\ publisher_health.status = "none"
        /\ Undisturbed => pc = "sleep"

\* C24: in the API-only variant every cycle attempts the heartbeat first,
\* then the overall system status check, then the worker check, then the
\* publisher check; when the system status request fails the cycle calls
\* send_alert once, with 'API Connection Failed' for 'monitoring', checks
\* and alerts on neither worker nor publisher, and the run loop sleeps its
\* interval and starts the next cycle with the heartbeat.
C24_ApiCycleOrderAndEarlyReturn ==
    /\ [](impl = "api" => ApiCycleInOrder /\ ApiCycleCutShort)
    /\ [][/\ (SystemCheckFailed /\ pc = "sleep" /\ pc' \notin {"sleep", "crashed", "stopped"})
               => /\ pc' = "loop"
                  /\ now' = now + 5 * TicksPerMin
          /\ (impl = "api" /\ pc = "loop" /\ pc' # "loop")
               => /\ pc' = "heartbeat"
                  /\ cycles' = cycles + 1]_vars

\* a cycle that follows one whose system status request failed (its alert
\* was delivered five minutes ago) has come to check the publisher
C24_Witness ==
    /\ impl = "api"
    /\ \E d \in delivered :
          /\ d.key = "monitoring_API Connection Failed"
          /\ d.time = now - 5 * TicksPerMin
    /\ Len(trace) >= 4
    /\ \E k \in DOMAIN trace : IsStep(trace[k], "check", "publisher")

====
